---- MODULE Spec2Model ----
(***************************************************************************)
(* Gesture-and-animation engine of the before/after comparison slider      *)
(* (GSAPImageCompareSliderDemo, src/app/lib/image-store.ts lines 79-486).  *)
(*                                                                         *)
(* Numbers that the component holds as JavaScript doubles (the reveal      *)
(* position, the velocity estimate, pixel values, tween targets and        *)
(* durations) are exact rationals <<n, d>> with d > 0 in lowest terms.     *)
(* Positions are fractions of the width, velocities are fractions per      *)
(* millisecond, durations are seconds, as in the source.                   *)
(*                                                                         *)
(* The module also holds the provider and model selection of the coloring  *)
(* API route (POST, src/app/api/coloring/route.ts lines 1-318), as the     *)
(* variable route and the specification RouteSpec,                         *)
(* and the selection handlers of the application component                 *)
(* (src/app/components/coloring-book-demo.tsx lines 697-890), as the       *)
(* variable app and the specification AppSpec.                             *)
(***************************************************************************)
EXTENDS Integers, Sequences, FiniteSets, TLC

(***************************************************************************)
(* Bounds of the model.                                                    *)
(***************************************************************************)
\* value changes counted within one press (stateRef.samples is unbounded)
MaxSamples == 2
\* animation frames the ticker gives a tween from start to completion
TweenFrames == 2
\* a tap/keyboard value change is taken only while the reveal position is
\* representable with a denominator up to this (each tween interrupted
\* mid-flight and restarted multiplies the denominator)
MaxDenominator == 320
\* primary presses in one behaviour (one more in PressEnv)
MaxPresses == 1
\* the velocities compared with the one of the state are the multiples of
\* 0.0001 up to this many, of either sign
VelocitySteps == 20

(***************************************************************************)
(* Exact rational arithmetic.                                              *)
(***************************************************************************)
(* The operations are functions, so that an argument is evaluated once.    *)
Q == Int \X (Nat \ {0})

gcd[a \in Nat, b \in Nat] == IF b = 0 THEN a ELSE gcd[b, a % b]

iabs[n \in Int] == IF n < 0 THEN -n ELSE n

rat[n \in Int, d \in Int \ {0}] ==
  LET g == gcd[iabs[n], iabs[d]]
      s == IF d < 0 THEN -1 ELSE 1
  IN  <<(s * n) \div g, (s * d) \div g>>

radd[a \in Q, b \in Q] ==
  LET g == gcd[a[2], b[2]]
  IN  rat[a[1] * (b[2] \div g) + b[1] * (a[2] \div g), (a[2] \div g) * b[2]]

rmul[a \in Q, b \in Q] ==
  LET g1 == gcd[iabs[a[1]], b[2]]
      g2 == gcd[iabs[b[1]], a[2]]
  IN  <<(a[1] \div g1) * (b[1] \div g2), (a[2] \div g2) * (b[2] \div g1)>>

rle[a \in Q, b \in Q] ==
  LET g == gcd[a[2], b[2]]
  IN  a[1] * (b[2] \div g) <= b[1] * (a[2] \div g)

rneg[a \in Q] == <<0 - a[1], a[2]>>

rabs[a \in Q] == <<iabs[a[1]], a[2]>>

rmax[a \in Q, b \in Q] == IF rle[a, b] THEN b ELSE a

rmin[a \in Q, b \in Q] == IF rle[a, b] THEN a ELSE b

\* 1 / a for a # 0
rinv[a \in Q] == IF a[1] < 0 THEN <<0 - a[2], 0 - a[1]>> ELSE <<a[2], a[1]>>

\* Math.round: nearest integer, halves towards +infinity
rround[a \in Q] == (2 * a[1] + a[2]) \div (2 * a[2])

IAbs(n) == iabs[n]
Rat(n, d) == rat[n, d]
RInt(n) == <<n, 1>>
Num(q) == q[1]
Den(q) == q[2]
RAdd(a, b) == radd[a, b]
RNeg(a) == rneg[a]
RSub(a, b) == radd[a, rneg[b]]
RMul(a, b) == rmul[a, b]
RDiv(a, b) == rmul[a, rinv[b]]
RLe(a, b) == rle[a, b]
RLt(a, b) == ~rle[b, a]
RAbs(a) == rabs[a]
RMax(a, b) == rmax[a, b]
RMin(a, b) == rmin[a, b]
RRound(a) == rround[a]

Zero == RInt(0)
One == RInt(1)

(***************************************************************************)
(* Constants of the component.                                             *)
(***************************************************************************)
RangeMax == 10000
DefaultValue == 5000
DefaultHandleW == 44
DragThresholdPx == 3
ProjectionMs == 180
\* 0.65 and 0.35, the weights of the moving average
VelocityKeep == Rat(65, 100)
VelocityGain == Rat(35, 100)
\* faulty variant: any velocity counts
InertiaThresholdOff == Zero

\* 0.0006 fraction/ms
InertiaThreshold == Rat(6, 10000)
\* 0.22 s: duration of the settle tween and lower bound of the inertia one
ClickDuration == Rat(22, 100)
DurMin == Rat(22, 100)
DurMax == Rat(6, 10)
\* faulty variant: a base of 0.22 s
DurBaseLow == Rat(22, 100)

DurBase == Rat(28, 100)
DurPerVelocity == 220

(***************************************************************************)
(* Inputs of the environment.  An environment names the sets the events    *)
(* draw their arguments from:                                              *)
(*   values        values the range control reports (0..10000 is its       *)
(*                 range; a value outside it is clamped by readP)          *)
(*   elapsed       milliseconds between two successive readings of         *)
(*                 performance.now()                                       *)
(*   buttons       e.button of presses: 0 is the primary button            *)
(*   pressXs       clientX of presses                                      *)
(*   moveXs        clientX of moves                                        *)
(*   widths        container widths getBoundingClientRect reports          *)
(*   handleWidths  handle widths getBoundingClientRect reports             *)
(***************************************************************************)
\* presses: how many primary presses the behaviour has
\* one gesture, slow or fast, with values inside and outside the range
MainEnv ==
  [presses |-> 1, values |-> {1500, 12000}, elapsed |-> {0, 175},
   buttons |-> {0, 2}, pressXs |-> {0}, moveXs |-> {3, 4},
   widths |-> {0, 1000}, handleWidths |-> {0}]

\* one gesture: press at x = 0, drag to x = 900 in 150 ms on a container
\* 1000 px wide, the control reporting 0.45 and 0.9 after 75 ms each
DragEnv ==
  [presses |-> 1, values |-> {0, 4500, 9000}, elapsed |-> {75},
   buttons |-> {0}, pressXs |-> {0}, moveXs |-> {3, 900},
   widths |-> {1000}, handleWidths |-> {0}]

\* taps and keyboard steps, for the properties of progress
TapEnv ==
  [presses |-> MaxPresses, values |-> {8000, 12000}, elapsed |-> {0},
   buttons |-> {0}, pressXs |-> {0}, moveXs |-> {4},
   widths |-> {1000}, handleWidths |-> {0}]

\* a second press, arriving while the first interaction still animates;
\* presses at x = 2 with either button, moves 2 px and 4 px away from it
PressEnv ==
  [presses |-> MaxPresses + 1, values |-> {8000, 12000}, elapsed |-> {0},
   buttons |-> {0, 2}, pressXs |-> {2}, moveXs |-> {4, 6},
   widths |-> {1000}, handleWidths |-> {0}]

\* a pointer that never moves more than 3 px from where it was pressed
StillEnv ==
  [presses |-> MaxPresses, values |-> {8000, 12000}, elapsed |-> {0, 175},
   buttons |-> {0}, pressXs |-> {3}, moveXs |-> {0, 3, 6},
   widths |-> {1000}, handleWidths |-> {0}]

\* a container measured at several widths, with a handle that is measured
\* (40 px) or not (0: the default applies)
ResizeEnv ==
  [presses |-> MaxPresses, values |-> {1500, 12000}, elapsed |-> {0},
   buttons |-> {0}, pressXs |-> {0}, moveXs |-> {4},
   widths |-> {0, 600, 1000}, handleWidths |-> {0, 40}]

Envs == [main |-> MainEnv, drag |-> DragEnv, tap |-> TapEnv,
         press |-> PressEnv, still |-> StillEnv, resize |-> ResizeEnv]

(***************************************************************************)
(* The coloring API route (src/app/api/coloring/route.ts, lines 1-318).    *)
(*                                                                         *)
(* A string is a sequence of pieces, each piece standing for the           *)
(* characters it spells; " " is white space.  The pieces are chosen so     *)
(* that the prefixes the route tests ("openai/", "google/", "gemini-") are *)
(* pieces and no piece is a prefix of another, so that startsWith and      *)
(* equality on pieces are those on characters.                             *)
(***************************************************************************)
\* the value undefined, told apart from every string
Undefined == <<"undefined">>

\* String.prototype.toLowerCase, piece by piece
lowerPiece ==
  [c \in {" ", "openai/", "OpenAI/", "google/", "Google/", "gemini-",
          "Gemini-", "gpt-image-1.5", "GPT-Image-1.5", "3-pro-image-preview",
          "2.5-flash-image", "imagen-4", "openai", "google", "Google",
          "azure"} |->
     CASE c = "OpenAI/" -> "openai/"
       [] c = "Google/" -> "google/"
       [] c = "Gemini-" -> "gemini-"
       [] c = "GPT-Image-1.5" -> "gpt-image-1.5"
       [] c = "Google" -> "google"
       [] OTHER -> c]

toLowerCase(s) == [i \in 1..Len(s) |-> lowerPiece[s[i]]]

RECURSIVE trimStart(_)
trimStart(s) == IF s # <<>> /\ Head(s) = " " THEN trimStart(Tail(s)) ELSE s

RECURSIVE trimEnd(_)
trimEnd(s) ==
  IF s # <<>> /\ s[Len(s)] = " " THEN trimEnd(SubSeq(s, 1, Len(s) - 1)) ELSE s

\* String.prototype.trim
trim(s) == trimEnd(trimStart(s))

startsWith(s, prefix) ==
  Len(s) >= Len(prefix) /\ SubSeq(s, 1, Len(prefix)) = prefix

\* a string that is neither undefined nor empty
Truthy(s) == s # Undefined /\ s # <<>>

DEFAULT_IMAGE_MODEL == <<"gpt-image-1.5">>
DEFAULT_FULL_MODEL == <<"openai/">> \o DEFAULT_IMAGE_MODEL
GEMINI_IMAGE_MODEL == <<"gemini-", "3-pro-image-preview">>

stripProviderPrefix(modelId) ==
  LET trimmed == trim(modelId)
      lower == toLowerCase(trimmed)
  IN  IF startsWith(lower, <<"openai/">>) \/ startsWith(lower, <<"google/">>)
      THEN Tail(trimmed)
      ELSE trimmed

\* the provider, "openai" or "google"
inferProvider(providerOverride, modelId) ==
  IF providerOverride = <<"openai">> THEN "openai"
  ELSE IF providerOverride = <<"google">> THEN "google"
  ELSE LET normalized == toLowerCase(trim(modelId))
       IN  IF startsWith(normalized, <<"google/">>) THEN "google"
           ELSE IF startsWith(normalized, <<"openai/">>) THEN "openai"
           ELSE IF startsWith(normalized, <<"gemini-">>) THEN "google"
           ELSE "openai"

normalizeModelSelection(modelId) ==
  LET lower == toLowerCase(trim(modelId))
  IN  IF lower = DEFAULT_IMAGE_MODEL \/ lower = <<"openai/">> \o DEFAULT_IMAGE_MODEL
      THEN <<"openai/">> \o DEFAULT_IMAGE_MODEL
      ELSE IF lower = GEMINI_IMAGE_MODEL \/ lower = <<"google/">> \o GEMINI_IMAGE_MODEL
           THEN <<"google/">> \o GEMINI_IMAGE_MODEL
           ELSE DEFAULT_FULL_MODEL

\* a response that is an error
Failure(status, error) ==
  [status |-> status, error |-> error, provider |-> "none", model |-> <<>>]

\* the response to a request that reached the provider's generation call
\* with the model
Generated(provider, model) ==
  [status |-> 200, error |-> "none", provider |-> provider, model |-> model]

\* POST of the route.  config is process.env (IMAGE_PROVIDER, IMAGE_MODEL),
\* form the fields of the request (image: whether an image file is given,
\* imageModel, imageProvider).  SAVE_TO_BLOB is not set, the API key of
\* the provider is, and the provider's call succeeds.
POST(config, form) ==
  LET providerEnv == IF config.IMAGE_PROVIDER = Undefined THEN Undefined
                     ELSE toLowerCase(trim(config.IMAGE_PROVIDER))
      envModel == IF config.IMAGE_MODEL = Undefined THEN DEFAULT_IMAGE_MODEL
                  ELSE config.IMAGE_MODEL
      requestModel == IF form.imageModel = Undefined THEN Undefined
                      ELSE trim(form.imageModel)
      requestProvider == IF form.imageProvider = Undefined THEN Undefined
                         ELSE toLowerCase(trim(form.imageProvider))
      rawModel == normalizeModelSelection(
                    IF Truthy(requestModel) THEN requestModel ELSE envModel)
      provider == inferProvider(
                    IF requestProvider # Undefined THEN requestProvider
                    ELSE providerEnv, rawModel)
      modelId == stripProviderPrefix(rawModel)
  IN  IF Truthy(providerEnv) /\ providerEnv \notin {<<"openai">>, <<"google">>}
      THEN Failure(500, "Invalid IMAGE_PROVIDER")
      ELSE IF ~form.image THEN Failure(400, "Missing image file")
      ELSE IF Truthy(requestProvider)
              /\ requestProvider \notin {<<"openai">>, <<"google">>}
      THEN Failure(400, "Invalid imageProvider")
      ELSE IF provider = "google"
                /\ ~startsWith(toLowerCase(modelId), <<"gemini-">>)
      THEN Failure(400, "IMAGE_MODEL must be a Gemini image model")
      ELSE Generated(provider, modelId)

\* values of IMAGE_MODEL and of the imageModel field
ModelIds ==
  {<<"gpt-image-1.5">>, <<"openai/", "gpt-image-1.5">>,
   <<"gemini-", "3-pro-image-preview">>,
   <<" ", "Google/", "Gemini-", "3-pro-image-preview">>,
   <<"gemini-", "2.5-flash-image">>, <<"google/", "gemini-", "2.5-flash-image">>,
   <<"google/", "imagen-4">>, <<"imagen-4">>}

\* values of IMAGE_PROVIDER and of the imageProvider field
ProviderIds == {<<"openai">>, <<" ", "Google">>, <<"azure">>, <<>>}

Configs ==
  [IMAGE_PROVIDER : {Undefined} \cup ProviderIds,
   IMAGE_MODEL : {Undefined} \cup ModelIds]

Forms ==
  [image : BOOLEAN,
   imageModel : {Undefined, <<>>, <<"GPT-Image-1.5">>,
                 <<"google/", "gemini-", "3-pro-image-preview">>,
                 <<"gemini-", "2.5-flash-image">>},
   imageProvider : {Undefined} \cup ProviderIds]

NoForm == [image |-> FALSE, imageModel |-> Undefined, imageProvider |-> Undefined]
NoResponse == Failure(0, "none")

\* the route where the slider is what is studied: nothing is configured and
\* no request is made
NoRequest ==
  [config |-> [IMAGE_PROVIDER |-> Undefined, IMAGE_MODEL |-> Undefined],
   form |-> NoForm, response |-> NoResponse]

(***************************************************************************)
(* The application component (src/app/components/coloring-book-demo.tsx):  *)
(* the selection of a preset (selectPreset, lines 697-723), the selection  *)
(* of a stored upload (selectUpload, lines 725-802) and the upload of a    *)
(* file (handleFile, lines 833-890).  An image is known by its id; the     *)
(* state kept of processed and of generatedSrc is the id of the image they *)
(* show, "null" when they are null.  selectUpload suspends on              *)
(* getImageRecord, handleFile on buildProcessedImage and on                *)
(* saveImageRecord: a call runs up to its await in one step and each       *)
(* continuation runs in one step of its own, as the event loop runs them.  *)
(* The generation request that abortRef aborts and the prefetch of         *)
(* preloadSampleBlob (which only adds a blob to a processed image of the   *)
(* same id) are outside the model.                                         *)
(***************************************************************************)
CUSTOM_ID == "custom"

\* the ids of SAMPLES and of the uploads that hydration restored
SAMPLES == {"sample-1"}
StoredUploads == {"upload-0"}

\* calls of selectPreset, selectUpload and handleFile in one behaviour
MaxOperations == 3

\* createUploadId: the n-th id it produces, unlike all ids before it
createUploadId(n) == "upload-" \o ToString(n)

\* what getImageRecord settles with: it rejects, or resolves with no
\* record, with a record of the original alone, or with one that has a
\* generated image too (as the upload's generatedUrl then is truthy)
Records == {"rejected", "missing", "original", "generated"}

\* the files offered: of an accepted type and size, of a type that is not
\* accepted, larger than 12MB
Files == {"image", "text", "large"}

\* the component before the application is studied, and after hydration
\* with the uploads it restored
NoApp ==
  [selectedId |-> CUSTOM_ID, processed |-> "null", generatedSrc |-> "null",
   status |-> "idle", stage |-> "upload", isProcessing |-> FALSE,
   uploadError |-> "null", selectionRef |-> 0, uploads |-> {},
   created |-> 0, loads |-> {}, files |-> {}]

\* selectPreset(sample), lines 697-723
selectPreset(a, sample) ==
  [a EXCEPT !.selectionRef = @ + 1,
            !.selectedId = sample,
            !.stage = "result",
            !.processed = sample,
            !.generatedSrc = sample,
            !.status = "ready",
            !.uploadError = "null"]

\* selectUpload(id) up to its await, lines 727-742: the call holds its
\* token while getImageRecord is pending
selectUpload(a, id) ==
  IF id \notin a.uploads THEN a
  ELSE [a EXCEPT !.selectionRef = @ + 1,
                 !.selectedId = id,
                 !.uploadError = "null",
                 !.isProcessing = TRUE,
                 !.loads = @ \cup {[id |-> id, token |-> a.selectionRef + 1]}]

\* the finally block of selectUpload, lines 795-799
selectUploadFinally(a, o) ==
  IF a.selectionRef = o.token THEN [a EXCEPT !.isProcessing = FALSE] ELSE a

\* selectUpload after its await, lines 742-799: getImageRecord of the call
\* o settled with record
selectUploadLoaded(a, o, record) ==
  LET b == [a EXCEPT !.loads = @ \ {o}]
  IN  IF record = "rejected"
      THEN selectUploadFinally(
             [b EXCEPT !.uploadError = "We couldn't load that photo."], o)
      ELSE IF b.selectionRef # o.token THEN selectUploadFinally(b, o)
      ELSE IF record = "missing"
      THEN selectUploadFinally(
             [b EXCEPT !.uploads = @ \ {o.id},
                       !.selectedId = CUSTOM_ID,
                       !.stage = "upload"], o)
      ELSE selectUploadFinally(
             [b EXCEPT !.processed = o.id,
                       !.generatedSrc =
                          IF record = "generated" THEN o.id ELSE "null",
                       !.status =
                          IF record = "generated" THEN "ready" ELSE "idle",
                       !.stage =
                          IF record = "generated" THEN "result" ELSE "preview"],
             o)

\* handleFile(file) up to its first await, lines 835-852
handleFile(a, file) ==
  IF file = "text"
  THEN [a EXCEPT !.uploadError = "Upload a JPG, PNG, or WebP image."]
  ELSE IF file = "large"
  THEN [a EXCEPT !.uploadError = "Please choose an image under 12MB."]
  ELSE [a EXCEPT !.isProcessing = TRUE,
                 !.uploadError = "null",
                 !.created = @ + 1,
                 !.files = @ \cup {[id |-> createUploadId(a.created + 1),
                                    at |-> "buildProcessedImage"]}]

\* handleFile after buildProcessedImage settled, lines 852-854 and 880-887:
\* prepared, the call goes on to save the record; otherwise the catch and
\* the finally block end it
handleFilePrepared(a, o, prepared) ==
  IF prepared
  THEN [a EXCEPT !.files = (@ \ {o}) \cup {[o EXCEPT !.at = "saveImageRecord"]}]
  ELSE [a EXCEPT !.files = @ \ {o},
                 !.uploadError = "We couldn't use that image.",
                 !.stage = "upload",
                 !.isProcessing = FALSE]

\* handleFile after saveImageRecord settled, lines 853-887
handleFileSaved(a, o, saved) ==
  [a EXCEPT !.files = @ \ {o},
            !.uploadError =
               IF saved THEN @ ELSE "We couldn't store that photo for later.",
            !.uploads = @ \cup {o.id},
            !.selectedId = o.id,
            !.processed = o.id,
            !.generatedSrc = "null",
            !.status = "idle",
            !.stage = "preview",
            !.isProcessing = FALSE]

VARIABLES
  proxy,            \* proxyRef.current: [p]
  size,             \* sizeRef.current: [w, handleW]
  clickTweenRef,    \* "null" or "tween"
  inertiaTweenRef,  \* "null" or "tween"
  state,            \* stateRef.current
  range,            \* Number(range.value) of the invisible range control
  visual,           \* what render last wrote: [clipRight, handleX]
  tweens,           \* the tweens gsap animates on proxyRef.current, oldest first
  last,             \* history: the last event that had an effect, see Event
  frozen,           \* history: see Freeze
  presses,          \* history: primary presses so far
  envName,          \* the environment of this behaviour: a field of Envs
  route,            \* the coloring API route: its configuration, the last
                    \* request and the response to it
  app               \* the application component: its selection state, its
                    \* selectionRef and the calls suspended on an await

vars == <<proxy, size, clickTweenRef, inertiaTweenRef, state, range, visual,
          tweens, last, frozen, presses, envName, route, app>>

env == Envs[envName]

Null == "null"
TweenObj == "tween"

\* A tween gsap animates: kind "click" (made by tweenTo) or "inertia" (made by
\* onPointerUp), the value of p it started from, its target, its duration,
\* the frames it has run, and held: whether the ref of its kind points to it.
Tween(kind, start, target, dur) ==
  [kind |-> kind, start |-> start, target |-> target, dur |-> dur, k |-> 0,
   held |-> TRUE]

\* the mutable objects the handlers close over, as one value
Heap == [proxy |-> proxy, size |-> size, clickTweenRef |-> clickTweenRef,
         inertiaTweenRef |-> inertiaTweenRef, state |-> state, range |-> range,
         visual |-> visual, tweens |-> tweens]

Commit(h) ==
  /\ proxy' = h.proxy
  /\ size' = h.size
  /\ clickTweenRef' = h.clickTweenRef
  /\ inertiaTweenRef' = h.inertiaTweenRef
  /\ state' = h.state
  /\ range' = h.range
  /\ visual' = h.visual
  /\ tweens' = h.tweens

(***************************************************************************)
(* Helpers of the component.                                               *)
(***************************************************************************)
\* faulty variant: the value is passed on as it is
clamp01Off(v) == v

clamp01(v) == RMax(Zero, RMin(One, v))

\* gsap.utils.clamp(min, max, value)
gsapClamp(lo, hi, v) == RMin(hi, RMax(lo, v))

\* faulty variant: the position is drawn without clamp01
renderUnclamped(h, p) ==
  LET w == h.size.w
      pw == RMul(p, RInt(w))
  IN  IF w = 0 THEN h
      ELSE [h EXCEPT !.visual = [rendered |-> TRUE,
                                  clipRight |-> RMax(Zero, RSub(RInt(w), pw)),
                                  handleX |-> RSub(pw, Rat(h.size.handleW, 2))]]

\* faulty variant: render draws with a width of 0 too
renderAlways(h, p) ==
  LET w == h.size.w
      pw == RMul(clamp01(p), RInt(w))
  IN  [h EXCEPT !.visual = [rendered |-> TRUE,
                             clipRight |-> RMax(Zero, RSub(RInt(w), pw)),
                             handleX |-> RSub(pw, Rat(h.size.handleW, 2))]]

render(h, p) ==
  LET w == h.size.w
      handleW == h.size.handleW
      pw == RMul(clamp01(p), RInt(w))
      rightPx == RMax(Zero, RSub(RInt(w), pw))
      x == RSub(pw, Rat(handleW, 2))
  IN  IF w = 0 THEN h
      ELSE [h EXCEPT !.visual = [rendered |-> TRUE, clipRight |-> rightPx,
                                  handleX |-> x]]

\* faulty variant: kill() leaves the tween animated
gsapKillNone(h, kind) == h

\* tween.kill() of the tween the ref of a kind points to: gsap stops
\* animating it (nothing happens if it has been killed already)
gsapKill(h, kind) ==
  [h EXCEPT !.tweens = SelectSeq(@, LAMBDA t : ~(t.kind = kind /\ t.held))]

\* faulty variant: the settle tween is left alone
killClickTweenOff(h) == h

killClickTween(h) ==
  IF h.clickTweenRef # Null
  THEN [gsapKill(h, "click") EXCEPT !.clickTweenRef = Null]
  ELSE h

\* faulty variant: the inertia tween is left alone
killInertiaTweenOff(h) == h

killInertiaTween(h) ==
  IF h.inertiaTweenRef # Null
  THEN [gsapKill(h, "inertia") EXCEPT !.inertiaTweenRef = Null]
  ELSE h

\* faulty variant: the position is rendered but not stored
setImmediateSkip(h, p) == render(h, p)

setImmediate(h, p) ==
  LET h1 == [h EXCEPT !.proxy.p = clamp01(p)]
  IN  render(h1, h1.proxy.p)

\* faulty variant: without overwrite: true the tweens already animating
\* proxyRef.current keep running; the ref of the kind moves to the new tween
gsapToKeep(h, kind, target, dur) ==
  [h EXCEPT !.tweens =
     Append([i \in 1..Len(@) |->
               IF @[i].kind = kind THEN [@[i] EXCEPT !.held = FALSE] ELSE @[i]],
            Tween(kind, h.proxy.p, target, dur))]

\* gsap.to(proxyRef.current, {p: target, duration, overwrite: true, ...}):
\* overwrite: true kills every other tween of the same target object; the
\* caller stores the new tween in the ref of its kind
gsapTo(h, kind, target, dur) ==
  [h EXCEPT !.tweens = <<Tween(kind, h.proxy.p, target, dur)>>]

\* faulty variant: a settle tween still in its slot is left to finish and
\* the new value is dropped
tweenToQueue(h, p) ==
  IF h.clickTweenRef # Null THEN h
  ELSE [gsapTo(h, "click", clamp01(p), ClickDuration)
          EXCEPT !.clickTweenRef = TweenObj]

tweenTo(h, p) ==
  LET target == clamp01(p)
      h1 == killClickTween(h)
      h2 == gsapTo(h1, "click", target, ClickDuration)
  IN  [h2 EXCEPT !.clickTweenRef = TweenObj]

readP(h) == clamp01(Rat(h.range, RangeMax))

writeRange(h, p) ==
  [h EXCEPT !.range = RRound(RMul(clamp01(p), RInt(RangeMax)))]

(***************************************************************************)
(* Event handlers, as functions of the heap.                               *)
(***************************************************************************)
\* faulty variant: a press with any button starts an interaction
onPointerDownAnyButton(h, e) ==
  LET h2 == killInertiaTween(killClickTween(h))
  IN  [h2 EXCEPT !.state = [down |-> TRUE, moved |-> FALSE, samples |-> 0,
                            startX |-> e.clientX, lastP |-> readP(h2),
                            lastT |-> 0, v |-> Zero]]

\* e = [button, clientX]; performance.now() is measured from the press
onPointerDown(h, e) ==
  IF e.button # 0 THEN h
  ELSE LET h1 == killClickTween(h)
           h2 == killInertiaTween(h1)
           p0 == readP(h2)
       IN  [h2 EXCEPT !.state = [down |-> TRUE, moved |-> FALSE, samples |-> 0,
                                 startX |-> e.clientX, lastP |-> p0,
                                 lastT |-> 0, v |-> Zero]]

\* faulty variant: any move while pressed makes the interaction a drag
onPointerMoveEager(h, e) ==
  IF ~h.state.down \/ h.state.moved THEN h
  ELSE killInertiaTween(killClickTween([h EXCEPT !.state.moved = TRUE]))

\* faulty variant: a move classifies whether or not a press is in progress
onPointerMoveUnpressed(h, e) ==
  IF ~h.state.moved /\ IAbs(e.clientX - h.state.startX) > DragThresholdPx
  THEN killInertiaTween(killClickTween([h EXCEPT !.state.moved = TRUE]))
  ELSE h

onPointerMove(h, e) ==
  LET s == h.state
  IN  IF ~s.down THEN h
      ELSE IF ~s.moved /\ IAbs(e.clientX - s.startX) > DragThresholdPx
           THEN killInertiaTween(killClickTween([h EXCEPT !.state.moved = TRUE]))
           ELSE h

\* faulty variant: the duration is not clamped
inertiaDurUnclamped(v) == RAdd(DurBase, RMul(RAbs(v), RInt(DurPerVelocity)))

\* duration of the inertia tween, in seconds
inertiaDur(v) == gsapClamp(DurMin, DurMax, RAdd(DurBase, RMul(RAbs(v), RInt(DurPerVelocity))))

\* faulty variant: the projected target is not clamped
inertiaTargetUnclamped(p, v) == RAdd(p, RMul(v, RInt(ProjectionMs)))

\* target of the inertia tween
inertiaTarget(p, v) == clamp01(RAdd(p, RMul(v, RInt(ProjectionMs))))

\* faulty variant: the release snaps to the control whether or not the
\* interaction was a drag
onPointerUpAlways(h) ==
  setImmediate([h EXCEPT !.state.down = FALSE, !.state.moved = FALSE,
                         !.state.samples = 0], readP(h))

\* faulty variant: the release of a drag does not snap to the control
onPointerUpNoSnap(h) ==
  [h EXCEPT !.state.down = FALSE, !.state.moved = FALSE, !.state.samples = 0]

onPointerUp(h) ==
  LET s == h.state
      wasDrag == s.moved
      v == s.v
      h1 == [h EXCEPT !.state.down = FALSE, !.state.moved = FALSE,
                      !.state.samples = 0]
  IN  IF ~wasDrag THEN h1
      ELSE LET pNow == readP(h1)
               h2 == setImmediate(h1, pNow)
           IN  IF RLt(InertiaThreshold, RAbs(v))
               THEN LET target == inertiaTarget(h2.proxy.p, v)
                        dur == inertiaDur(v)
                        h3 == killInertiaTween(h2)
                        h4 == gsapTo(h3, "inertia", target, dur)
                    IN  [h4 EXCEPT !.inertiaTweenRef = TweenObj]
               ELSE h2

\* faulty variant: the instantaneous velocity, not smoothed
nextVelocityRaw(v, dp, dt) == RDiv(dp, RInt(dt))

\* the velocity update of onInput; dt and dp as the handler computes them
nextVelocity(v, dp, dt) ==
  LET instV == RDiv(dp, RInt(dt))
  IN  RAdd(RMul(v, VelocityKeep), RMul(instV, VelocityGain))

\* faulty variant: the second value change of a press does not make it a
\* drag, the third does
onInputLate(h, now) ==
  LET s == h.state
      p == readP(h)
      dt == IF now - s.lastT < 1 THEN 1 ELSE now - s.lastT
      s1 == [s EXCEPT !.v = nextVelocity(s.v, RSub(p, s.lastP), dt),
                      !.lastP = p, !.lastT = now, !.samples = s.samples + 1]
      h1 == IF ~s.down THEN h
            ELSE IF s1.samples > 2 /\ ~s1.moved
                 THEN killInertiaTween(killClickTween(
                        [h EXCEPT !.state = [s1 EXCEPT !.moved = TRUE]]))
                 ELSE [h EXCEPT !.state = s1]
  IN  IF h1.state.down /\ h1.state.moved
      THEN setImmediate(h1, p)
      ELSE tweenTo(h1, p)

\* faulty variant: every value change is written at once
onInputDirect(h, now) == setImmediate(h, readP(h))

\* faulty variant: every value change goes through a settle tween, those of
\* a classified drag too
onInputTweenAlways(h, now) ==
  LET s == h.state
      p == readP(h)
      dt == IF now - s.lastT < 1 THEN 1 ELSE now - s.lastT
      s1 == [s EXCEPT !.v = nextVelocity(s.v, RSub(p, s.lastP), dt),
                      !.lastP = p, !.lastT = now, !.samples = s.samples + 1,
                      !.moved = s.moved \/ s.samples >= 1]
  IN  tweenTo(IF s.down THEN [h EXCEPT !.state = s1] ELSE h, p)

\* now = performance.now() read by the handler
onInput(h, now) ==
  LET s == h.state
      p == readP(h)
      dt == IF now - s.lastT < 1 THEN 1 ELSE now - s.lastT
      dp == RSub(p, s.lastP)
      s1 == [s EXCEPT !.v = nextVelocity(s.v, dp, dt), !.lastP = p,
                      !.lastT = now, !.samples = s.samples + 1]
      classify == s1.samples > 1 /\ ~s1.moved
      h1 == IF ~s.down THEN h
            ELSE IF classify
                 THEN killInertiaTween(killClickTween(
                        [h EXCEPT !.state = [s1 EXCEPT !.moved = TRUE]]))
                 ELSE [h EXCEPT !.state = s1]
  IN  IF h1.state.down /\ h1.state.moved
      THEN setImmediate(h1, p)
      ELSE tweenTo(h1, p)

\* faulty variant: the interaction is reset but the tweens are left running
onBlurKeep(h) ==
  [h EXCEPT !.state.down = FALSE, !.state.moved = FALSE,
            !.state.samples = 0, !.state.v = Zero]

onBlur(h) ==
  LET h1 == [h EXCEPT !.state.down = FALSE, !.state.moved = FALSE,
                      !.state.samples = 0, !.state.v = Zero]
  IN  killInertiaTween(killClickTween(h1))

\* faulty variant: the sizes are stored but nothing is rendered
measureNoRender(h, width, handleWidth) ==
  [h EXCEPT !.size = [w |-> width,
                      handleW |-> IF handleWidth = 0 THEN DefaultHandleW
                                  ELSE handleWidth]]

\* rect.width and hRect.width as measured
measure(h, width, handleWidth) ==
  LET h1 == [h EXCEPT !.size = [w |-> width,
                                handleW |-> IF handleWidth = 0 THEN DefaultHandleW
                                            ELSE handleWidth]]
  IN  render(h1, h1.proxy.p)

(***************************************************************************)
(* The animation library: one frame of the ticker.                         *)
(***************************************************************************)
\* ease "power3.out" at progress t
power3Out(t) ==
  LET u == RSub(One, t)
      u2 == RMul(u, u)
  IN  RSub(One, RMul(u2, u2))

\* value of the animated property at frame k of TweenFrames
tweenValue(tw, k) ==
  RAdd(tw.start, RMul(RSub(tw.target, tw.start), power3Out(Rat(k, TweenFrames))))

clickOnUpdate(h) == render(h, h.proxy.p)
\* faulty variant: the slot keeps the finished tween
clickOnCompleteOff(h) == h

clickOnComplete(h) == [h EXCEPT !.clickTweenRef = Null]

\* faulty variant: the frame renders but does not write the range
inertiaOnUpdateNoSync(h) == render(h, h.proxy.p)

inertiaOnUpdate(h) == writeRange(render(h, h.proxy.p), h.proxy.p)
\* faulty variant: the slot keeps the finished tween
inertiaOnCompleteOff(h) == h

inertiaOnComplete(h) == [h EXCEPT !.inertiaTweenRef = Null]

\* one frame of one tween: write the property, run onUpdate, and at the
\* last frame run onComplete; the tween stays animated until then.  (The
\* heaps between the steps are bound by quantifiers so that each is
\* computed once.)
gsapFrame(h, tw) ==
  LET k1 == tw.k + 1
  IN  CHOOSE r \in
        { IF k1 < TweenFrames
          THEN [h2 EXCEPT !.tweens = Append(@, [tw EXCEPT !.k = k1])]
          ELSE IF tw.kind = "click" THEN clickOnComplete(h2)
               ELSE inertiaOnComplete(h2) :
          h2 \in { IF tw.kind = "click" THEN clickOnUpdate(h1)
                   ELSE inertiaOnUpdate(h1) :
                   h1 \in {[h EXCEPT !.proxy.p = tweenValue(tw, k1)]} } } : TRUE

\* gsapFrames(h, todo): the tweens of todo run their frame, oldest first;
\* h.tweens collects those that stay animated
RECURSIVE gsapFrames(_, _)
gsapFrames(h, todo) ==
  IF todo = <<>> THEN h
  ELSE \* the heap after the first tween's frame is computed once
       CHOOSE r \in { gsapFrames(h1, Tail(todo)) :
                      h1 \in {gsapFrame(h, Head(todo))} } : TRUE

\* one frame of the ticker
gsapTick(h) == gsapFrames([h EXCEPT !.tweens = <<>>], h.tweens)

(***************************************************************************)
(* The state machine.                                                      *)
(***************************************************************************)
\* the component after mount: refs at their initial values, the range
\* aligned with the proxy (writeRange(proxyRef.current.p))
Mounted ==
  /\ proxy = [p |-> Rat(1, 2)]
  /\ size = [w |-> 0, handleW |-> DefaultHandleW]
  /\ clickTweenRef = Null
  /\ inertiaTweenRef = Null
  /\ state = [down |-> FALSE, moved |-> FALSE, startX |-> 0, samples |-> 0,
              lastP |-> Rat(1, 2), lastT |-> 0, v |-> Zero]
  /\ range = DefaultValue
  /\ visual = [rendered |-> FALSE, clipRight |-> Zero, handleX |-> Zero]
  /\ tweens = <<>>
  /\ last = [ev |-> "init", was |-> "idle", tw |-> "none", k |-> 0, ticked |-> FALSE]
  /\ frozen = "none"
  /\ presses = 0

Init == Mounted /\ envName = "main" /\ route = NoRequest /\ app = NoApp

DragInit == Mounted /\ envName = "drag" /\ route = NoRequest /\ app = NoApp

TapInit == Mounted /\ envName = "tap" /\ route = NoRequest /\ app = NoApp

PressInit == Mounted /\ envName = "press" /\ route = NoRequest /\ app = NoApp

StillInit == Mounted /\ envName = "still" /\ route = NoRequest /\ app = NoApp

ResizeInit == Mounted /\ envName = "resize" /\ route = NoRequest /\ app = NoApp

\* classification of the interaction in progress
Interaction ==
  IF ~state.down THEN "idle"
  ELSE IF state.moved THEN "drag"
  ELSE IF state.samples = 0 THEN "pressed"
  ELSE "tap"

\* the tween being animated, if there is one ("none" if not)
Animated == IF tweens = <<>> THEN "none" ELSE tweens[1].kind
FramesDone == IF tweens = <<>> THEN 0 ELSE tweens[1].k

\* last.ev: the last event, other than a ticker frame, that was a primary
\* press or whose handler changed something (ev is the event, h the heap its
\* handler leaves); last.was,
\* last.tw and last.k: the interaction and the animated tween (kind, frames
\* done) it arrived in; last.ticked: whether a ticker frame ran since
Event(ev, h) ==
  last' = IF h = Heap /\ ev # "down" THEN last
          ELSE [ev |-> ev, was |-> Interaction, tw |-> Animated,
                k |-> FramesDone, ticked |-> FALSE]

\* frozen: the kind of the tween that the latest primary press cancelled
\* after it had run a frame, as long as no value change has happened since;
\* "none" otherwise
Freeze(ev) ==
  frozen' = IF ev = "down" /\ FramesDone > 0 THEN Animated
            ELSE IF ev \in {"down", "input"} THEN "none"
            ELSE frozen

\* the event ev arrives and its handler leaves the heap h
Handle(ev, h) ==
  /\ Commit(h)
  /\ Event(ev, h)
  /\ Freeze(ev)
  /\ UNCHANGED <<envName, route, app>>

PointerDown ==
  \E b \in env.buttons, x \in env.pressXs :
    /\ b = 0 => presses < env.presses
    /\ \E h \in {onPointerDown(Heap, [button |-> b, clientX |-> x])} :
         Handle(IF b = 0 THEN "down" ELSE "downIgnored", h)
    /\ presses' = IF b = 0 THEN presses + 1 ELSE presses

PointerMove ==
  \E x \in env.moveXs :
    /\ \E h \in {onPointerMove(Heap, [clientX |-> x])} : Handle("move", h)
    /\ UNCHANGED presses

PointerUp ==
  /\ \E h \in {onPointerUp(Heap)} : Handle("up", h)
  /\ UNCHANGED presses

\* pointercancel is bound to the same handler as pointerup
PointerCancel ==
  /\ \E h \in {onPointerUp(Heap)} : Handle("cancel", h)
  /\ UNCHANGED presses

\* the control takes the value val and fires "input", d ms after the
\* previous reading of the clock
Input ==
  \E val \in env.values, d \in env.elapsed :
    /\ state.down => state.samples < MaxSamples
    /\ ~(state.down /\ (state.moved \/ state.samples >= 1))
         => Den(proxy.p) <= MaxDenominator
    /\ ~state.down => \A d2 \in env.elapsed : d <= d2
    /\ \E h \in {onInput([Heap EXCEPT !.range = val], state.lastT + d)} :
         Handle("input", h)
    /\ UNCHANGED presses

Blur ==
  /\ \E h \in {onBlur(Heap)} : Handle("blur", h)
  /\ UNCHANGED presses

\* the container keeps a width once it has one
Measure ==
  \E w \in env.widths, hw \in env.handleWidths :
    /\ w = 0 => size.w = 0
    /\ \E h \in {measure(Heap, w, hw)} : Handle("measure", h)
    /\ UNCHANGED presses

\* the ticker runs a frame of the tweens being animated
Tick ==
  /\ tweens # <<>>
  /\ \E h \in {gsapTick(Heap)} : Commit(h)
  /\ last' = [last EXCEPT !.ticked = TRUE]
  /\ UNCHANGED <<frozen, presses, envName, route, app>>

Next ==
  \/ PointerDown
  \/ PointerMove
  \/ PointerUp
  \/ PointerCancel
  \/ Input
  \/ Blur
  \/ Measure
  \/ Tick

Spec == Init /\ [][Next]_vars

DragSpec == DragInit /\ [][Next]_vars

PressSpec == PressInit /\ [][Next]_vars

StillSpec == StillInit /\ [][Next]_vars

ResizeSpec == ResizeInit /\ [][Next]_vars

\* the ticker runs a frame whenever a tween is being animated
FairSpec == TapInit /\ [][Next]_vars /\ WF_vars(Tick)

TypeOK ==
  /\ clickTweenRef \in {Null, TweenObj}
  /\ inertiaTweenRef \in {Null, TweenObj}
  /\ \A i \in 1..Len(tweens) : tweens[i].kind \in {"click", "inertia"}
  /\ frozen \in {"none", "click", "inertia"}
  /\ state.samples \in 0..MaxSamples
  /\ presses \in 0..env.presses

(***************************************************************************)
(* The route as a state machine: a deployment with some configuration      *)
(* answers one request after the other.                                    *)
(***************************************************************************)
RouteInit ==
  /\ Mounted
  /\ envName = "main"
  /\ \E config \in Configs : route = [NoRequest EXCEPT !.config = config]
  /\ app = NoApp

Request ==
  /\ \E form \in Forms :
       route' = [route EXCEPT !.form = form,
                              !.response = POST(route.config, form)]
  /\ UNCHANGED <<proxy, size, clickTweenRef, inertiaTweenRef, state, range,
                 visual, tweens, last, frozen, presses, envName, app>>

RouteNext == Request

RouteSpec == RouteInit /\ [][RouteNext]_vars

(***************************************************************************)
(* The application component as a state machine: the user selects presets  *)
(* and stored uploads and offers files in any order, and the awaited       *)
(* promises settle in any order.  The restore effect (lines 804-831) is a  *)
(* first call of selectPreset or selectUpload.                             *)
(***************************************************************************)
AppInit ==
  /\ Mounted
  /\ envName = "main"
  /\ route = NoRequest
  /\ \E restored \in SUBSET StoredUploads :
       app = [NoApp EXCEPT !.uploads = restored]

\* the slider and the route are not what is studied here
AppOnly ==
  UNCHANGED <<proxy, size, clickTweenRef, inertiaTweenRef, state, range,
              visual, tweens, last, frozen, presses, envName, route>>

\* calls made so far that passed their first checks
Calls == app.selectionRef + app.created

SelectPreset ==
  /\ Calls < MaxOperations
  /\ \E sample \in SAMPLES : app' = selectPreset(app, sample)
  /\ AppOnly

SelectUpload ==
  /\ Calls < MaxOperations
  /\ \E id \in app.uploads \cup StoredUploads : app' = selectUpload(app, id)
  /\ AppOnly

GetImageRecordSettles ==
  /\ \E o \in app.loads, record \in Records :
       app' = selectUploadLoaded(app, o, record)
  /\ AppOnly

HandleFile ==
  /\ \E file \in Files :
       /\ file = "image" => Calls < MaxOperations
       /\ app' = handleFile(app, file)
  /\ AppOnly

BuildProcessedImageSettles ==
  /\ \E o \in app.files, prepared \in BOOLEAN :
       /\ o.at = "buildProcessedImage"
       /\ app' = handleFilePrepared(app, o, prepared)
  /\ AppOnly

SaveImageRecordSettles ==
  /\ \E o \in app.files, saved \in BOOLEAN :
       /\ o.at = "saveImageRecord"
       /\ app' = handleFileSaved(app, o, saved)
  /\ AppOnly

AppNext ==
  \/ SelectPreset
  \/ SelectUpload
  \/ GetImageRecordSettles
  \/ HandleFile
  \/ BuildProcessedImageSettles
  \/ SaveImageRecordSettles

AppSpec == AppInit /\ [][AppNext]_vars

(***************************************************************************)
(* Vocabulary of the properties.                                           *)
(***************************************************************************)
\* the step is the event ev (of the steps that change something, the ticker
\* frames set last.ticked and every other one records its event)
Step(ev) == last'.ev = ev /\ ~last'.ticked

\* the position the control reports
Reported == RMax(Zero, RMin(One, Rat(range, 10000)))

\* nothing is animated, the settle slot is empty and the reveal position is
\* the position the control reports
Settled == tweens = <<>> /\ clickTweenRef = Null /\ proxy.p = Reported

OfKind(kind) == {i \in 1..Len(tweens) : tweens[i].kind = kind}

\* the step starts an inertia tween: after it a fresh inertia tween is
\* animated that was not animated before
StartsInertia ==
  \E i \in 1..Len(tweens') :
    /\ tweens'[i].kind = "inertia"
    /\ tweens'[i].k = 0
    /\ \A j \in 1..Len(tweens) : tweens[j] # tweens'[i]

\* the inertia tween, when it is the only tween animated
Inertia == tweens[1]

VelocitySamples == {Rat(n, 10000) : n \in (0 - VelocitySteps)..VelocitySteps}

\* the duration of the inertia tween for each of them
SampleDur == [w \in VelocitySamples |-> inertiaDur(w)]

(***************************************************************************)
(* Properties.                                                             *)
(***************************************************************************)
\* C1: the reveal position is within [0, 1] in every reachable state,
\* whatever values the control reports (values beyond its range included)
\* and at every frame of a settle or inertia tween.
C1_RevealPositionInUnit == RLe(Zero, proxy.p) /\ RLe(proxy.p, One)

\* a settle tween towards a value beyond the range has run a frame
C1_Witness ==
  /\ range > 10000
  /\ tweens # <<>>
  /\ tweens[1].k > 0
  /\ tweens[1].target = One
  /\ RLt(proxy.p, One)

\* C2: at most one of {direct drag write, settle tween, inertia tween}
\* drives the reveal position: nothing is animated while the interaction is
\* a classified drag, and a settle tween and an inertia tween are never
\* animated together.
C2_OneDriver ==
  /\ state.down /\ state.moved => tweens = <<>>
  /\ OfKind("click") = {} \/ OfKind("inertia") = {}

\* a value change arrived while an inertia tween was animated, and the settle
\* tween it started is the only tween animated
C2_Witness ==
  /\ last.ev = "input"
  /\ last.tw = "inertia"
  /\ OfKind("click") # {}
  /\ inertiaTweenRef # Null

\* C3, as stated: a primary press cancels whatever is animated in the same
\* step (nothing is animated afterwards, both slots are empty, the reveal
\* position is not touched), and after a press that cancelled a tween in
\* mid-flight the reveal position keeps its value until the next value
\* change.
C3_FrozenUntilValueChange ==
  [][ /\ Step("down") =>
           /\ tweens' = <<>>
           /\ clickTweenRef' = Null
           /\ inertiaTweenRef' = Null
           /\ proxy' = proxy
      /\ frozen # "none" /\ ~Step("input") => proxy' = proxy ]_vars

\* C3, amended: ... the reveal position keeps its value until the next value
\* change or until the interaction, classified as a drag, is released or
\* cancelled (the release writes the position the control reports).
C3_FrozenUntilValueChangeOrDragRelease ==
  [][ /\ Step("down") =>
           /\ tweens' = <<>>
           /\ clickTweenRef' = Null
           /\ inertiaTweenRef' = Null
           /\ proxy' = proxy
      /\ /\ frozen # "none"
         /\ ~Step("input")
         /\ ~(state.down /\ state.moved /\ (Step("up") \/ Step("cancel")))
         => proxy' = proxy ]_vars

\* a press has just cancelled an inertia tween that had run a frame
C3_Witness ==
  /\ last.ev = "down"
  /\ last.tw = "inertia"
  /\ last.k > 0
  /\ frozen = "inertia"
  /\ tweens = <<>>
  /\ inertiaTweenRef = Null

\* C4: the release of an interaction classified as a drag whose velocity
\* estimate is at most 0.0006 in magnitude starts no inertia tween and leaves
\* the reveal position exactly at the (clamped) value the control reports;
\* an inertia tween is started only by the release of a drag whose velocity
\* estimate is above 0.0006 in magnitude.
C4_InertiaOnlyAboveThreshold ==
  [][ /\ /\ Step("up")
         /\ state.down /\ state.moved
         /\ RLe(RAbs(state.v), Rat(6, 10000))
         => tweens' = <<>> /\ proxy'.p = Reported
      /\ StartsInertia =>
           /\ Step("up") \/ Step("cancel")
           /\ state.down /\ state.moved
           /\ RLt(Rat(6, 10000), RAbs(state.v)) ]_vars

\* a drag was released with a velocity estimate that is not zero and not
\* above the threshold
C4_Witness ==
  /\ last.ev = "up"
  /\ last.was = "drag"
  /\ state.v # Zero
  /\ RLe(RAbs(state.v), Rat(6, 10000))
  /\ tweens = <<>>
  /\ proxy.p = Reported

\* C5: the inertia tween a drag release starts has the target
\* clamp01(position the control reports at release + velocity estimate at
\* release * 180); the target is in [0, 1] and on the side of the release
\* position that the sign of the velocity gives.
C5_InertiaTarget ==
  [][ StartsInertia =>
        LET t == tweens'[Len(tweens')]
            projected == RAdd(Reported, RMul(state.v, RInt(180)))
        IN  /\ t.target = RMax(Zero, RMin(One, projected))
            /\ t.start = Reported
            /\ RLe(Zero, t.target) /\ RLe(t.target, One)
            /\ RLt(Zero, state.v) => RLe(Reported, t.target)
            /\ RLt(state.v, Zero) => RLe(t.target, Reported) ]_vars

\* a release with a negative velocity has started an inertia tween whose
\* target is inside the interval
C5_Witness ==
  /\ last.ev = "up"
  /\ ~last.ticked
  /\ OfKind("inertia") # {}
  /\ RLt(state.v, Zero)
  /\ RLt(Zero, Inertia.target)
  /\ RLt(Inertia.target, Inertia.start)

\* C6: the duration of every inertia tween is within [0.22 s, 0.6 s], it is
\* the duration computed from the velocity estimate at release, and that
\* duration is monotonically non-decreasing in the magnitude of the velocity.
C6_InertiaDuration ==
  /\ \A i \in OfKind("inertia") :
       /\ RLe(Rat(22, 100), tweens[i].dur)
       /\ RLe(tweens[i].dur, Rat(6, 10))
       /\ last.ev \in {"up", "cancel"} => tweens[i].dur = inertiaDur(state.v)
  /\ LET d == inertiaDur(state.v)
         a == RAbs(state.v)
     IN  \A w \in VelocitySamples :
           /\ RLe(a, RAbs(w)) => RLe(d, SampleDur[w])
           /\ RLe(RAbs(w), a) => RLe(SampleDur[w], d)

\* an inertia tween is animated whose duration is strictly inside the bounds
C6_Witness ==
  /\ OfKind("inertia") # {}
  /\ RLt(Rat(22, 100), Inertia.dur)
  /\ RLt(Inertia.dur, Rat(6, 10))

\* the last thing that happened is the release of a tap
TapReleased == last.ev = "up" /\ last.was = "tap"

\* C7: in a tap (press, one value change to v, no displacement above 3 px,
\* release) the value change starts exactly one settle tween, from the
\* current reveal position to clamp01(v); the release starts and cancels
\* nothing, so no inertia tween; and if nothing else happens the reveal
\* position eventually is v with the settle slot empty.
C7_Tap ==
  /\ [][ /\ Step("input") /\ state.down /\ ~state.moved /\ state.samples = 0
            => /\ Len(tweens') = 1
               /\ tweens'[1].kind = "click"
               /\ tweens'[1].k = 0
               /\ tweens'[1].start = proxy.p
               /\ tweens'[1].target = RMax(Zero, RMin(One, Rat(range', 10000)))
               /\ proxy' = proxy
         /\ Step("up") /\ state.down /\ ~state.moved
            => /\ tweens' = tweens
               /\ proxy' = proxy
               /\ clickTweenRef' = clickTweenRef
               /\ inertiaTweenRef' = inertiaTweenRef ]_vars
  /\ TapReleased ~> (Settled \/ ~TapReleased)

\* a tap at 0.8 was released and its settle tween has finished at 0.8
C7_Witness ==
  /\ TapReleased
  /\ last.ticked
  /\ Settled
  /\ proxy.p = Rat(8, 10)

\* the last thing that happened is a value change outside a drag, or the
\* release of a tap
TapLast == (last.ev = "input" /\ last.was \in {"idle", "pressed"}) \/ TapReleased

C9_StillPointerIsNoDrag ==
  /\ state.down /\ state.samples <= 1 => ~state.moved
  /\ last.ev = "up" /\ last.was \in {"pressed", "tap"} => OfKind("inertia") = {}

\* a tap was released with a velocity estimate above the threshold, after
\* the pointer had moved
C9_Witness ==
  /\ TapReleased
  /\ RLt(Rat(6, 10000), RAbs(state.v))
  /\ OfKind("inertia") = {}
  /\ OfKind("click") # {}

\* the release of the drag gesture: a classified drag released with the
\* control at 0.9 and a velocity estimate above the threshold starts an
\* inertia tween, the only tween animated, from 0.9 to the target 1.0 (the
\* projection 0.9 + v * 180 is beyond 1), with a duration in [0.22, 0.6]
DragReleaseGlides ==
  /\ Step("up")
  /\ state.down /\ state.moved
  /\ range = 9000
  /\ RLt(Rat(6, 10000), state.v)
  => /\ Len(tweens') = 1
     /\ tweens'[1].kind = "inertia"
     /\ tweens'[1].k = 0
     /\ tweens'[1].start = Rat(9, 10)
     /\ tweens'[1].target = One
     /\ RLe(Rat(22, 100), tweens'[1].dur)
     /\ RLe(tweens'[1].dur, Rat(6, 10))
     /\ proxy'.p = Rat(9, 10)

\* C10, as stated: in the drag gesture (press at x = 0, movement to x = 900
\* in 150 ms, release) every position the control reports between press and
\* release is written to the reveal position directly and no settle tween is
\* started; the release starts an inertia tween with target 1.0 and a
\* duration in [0.22 s, 0.6 s].
C10_DragWritesEveryPosition ==
  [][ /\ Step("input") /\ state.down
            => proxy'.p = Reported' /\ tweens' = <<>>
      /\ DragReleaseGlides ]_vars

\* C10, amended: every position the control reports once the interaction is
\* classified as a drag (by that value change, the second of the press, or by
\* an earlier move beyond 3 px) is written directly with nothing animated;
\* the first value change of a press not yet classified starts a settle
\* tween instead, which the classification cancels; the release is as stated.
C10_DragWritesOnceClassified ==
  [][ /\ Step("input") /\ state'.down /\ state'.moved
            => proxy'.p = Reported' /\ tweens' = <<>>
      /\ Step("input") /\ state.down /\ ~state'.moved
            => OfKind("click")' # {} /\ proxy' = proxy
      /\ (\/ Step("move") /\ ~state.moved /\ state'.moved
          \/ Step("input") /\ ~state.moved /\ state'.moved)
            => tweens' = <<>>
      /\ DragReleaseGlides ]_vars

\* the gesture was released: pressed with the control at 0, 0.45 reported
\* after 75 ms and 0.9 after 150 ms, velocity estimate 0.003465, and the
\* inertia tween runs from 0.9 to 1.0 in 0.6 s
C10_Witness ==
  /\ last.ev = "up"
  /\ last.was = "drag"
  /\ state.lastT = 150
  /\ state.v = Rat(3465, 1000000)
  /\ proxy.p = Rat(9, 10)
  /\ tweens # <<>>
  /\ tweens[1].kind = "inertia"
  /\ tweens[1].target = One
  /\ tweens[1].dur = Rat(6, 10)

(***************************************************************************)
(* C11: a window blur that changes anything leaves the interaction idle    *)
(* (not down, not moved, no samples, velocity 0), both tween refs null and *)
(* nothing animated, and does not move p; as long as the blur is the last  *)
(* event no ticker frame runs.                                             *)
(***************************************************************************)
C11_BlurResets ==
  /\ [][Step("blur") =>
          /\ ~state'.down /\ ~state'.moved
          /\ state'.samples = 0 /\ state'.v = Zero
          /\ clickTweenRef' = Null /\ inertiaTweenRef' = Null
          /\ tweens' = <<>>
          /\ proxy' = proxy /\ range' = range]_vars
  /\ [](last.ev = "blur" => ~last.ticked /\ tweens = <<>> /\ ~ENABLED Tick)

\* a blur arrived while an inertia tween was in mid-flight, and stopped it
C11_Witness ==
  /\ last.ev = "blur" /\ last.tw = "inertia" /\ last.k > 0
  /\ tweens = <<>> /\ inertiaTweenRef = Null

(***************************************************************************)
(* C12: a pointercancel that changes anything leaves the interaction idle  *)
(* (not down, not moved, no samples) and nothing animated: neither a       *)
(* settle nor an inertia tween is live right after it.  The listener runs  *)
(* onPointerUp, which kills no settle tween and starts an inertia tween    *)
(* when a fast drag is cancelled, so this does not hold.                   *)
(***************************************************************************)
C12_CancelResets ==
  [][Step("cancel") =>
       /\ ~state'.down /\ ~state'.moved /\ state'.samples = 0
       /\ tweens' = <<>>]_vars

\* a drag with a velocity estimate above the threshold was cancelled, and
\* an inertia tween is animated right after the cancel
C12_Witness ==
  /\ last.ev = "cancel" /\ last.was = "drag" /\ ~last.ticked
  /\ RLt(InertiaThreshold, RAbs(state.v))
  /\ OfKind("inertia") # {} /\ inertiaTweenRef # Null

\* a value change with no press in progress arrives while an inertia tween
\* is animated
IdleInputDuringInertia ==
  Step("input") /\ ~state.down /\ OfKind("inertia") # {}

\* after the step no tween of the kind is animated
NoneLeft(kind) == \A i \in 1..Len(tweens') : tweens'[i].kind # kind

(***************************************************************************)
(* C13, as stated: a value change with no press in progress that arrives   *)
(* while an inertia tween is animated leaves a settle tween animated, no   *)
(* inertia tween, and the inertia ref null; a step that starts an inertia  *)
(* tween leaves no settle tween animated and the settle ref null.          *)
(***************************************************************************)
C13_OtherKindKilledAndCleared ==
  [][/\ IdleInputDuringInertia =>
          /\ NoneLeft("inertia") /\ ~NoneLeft("click")
          /\ inertiaTweenRef' = Null
     /\ StartsInertia => NoneLeft("click") /\ clickTweenRef' = Null]_vars

\* C13, amended: the inertia tween is killed (by overwrite: true of the
\* new tween) and is not animated any more, but inertiaTweenRef is not
\* cleared by the step: it keeps referring to the killed tween.  The part
\* on the start of an inertia tween is as stated.
C13_OtherKindKilled ==
  [][/\ IdleInputDuringInertia =>
          /\ NoneLeft("inertia") /\ ~NoneLeft("click")
          /\ inertiaTweenRef' = inertiaTweenRef /\ inertiaTweenRef' # Null
     /\ StartsInertia => NoneLeft("click") /\ clickTweenRef' = Null]_vars

\* a keyboard step arrived in mid-flight of an inertia tween: a settle tween
\* is the only tween animated, the inertia ref still set
C13_Witness ==
  /\ last.ev = "input" /\ last.was = "idle" /\ ~last.ticked
  /\ last.tw = "inertia" /\ last.k > 0
  /\ Len(tweens) = 1 /\ tweens[1].kind = "click"
  /\ inertiaTweenRef = TweenObj

\* the step is a ticker frame of a tween of the kind
Frame(kind) == last'.ticked /\ Animated = kind

(***************************************************************************)
(* C14: after every frame of an inertia tween the value of the range is    *)
(* Math.round(p * 10000) for the p the frame wrote (n with                 *)
(* n <= p * 10000 + 1/2 < n + 1), and the write runs no input handler: the *)
(* interaction state (velocity estimate included) is as before the frame,  *)
(* no settle tween is animated and the settle ref is untouched.            *)
(***************************************************************************)
C14_InertiaSyncsControl ==
  [][Frame("inertia") =>
       LET q == RMul(proxy'.p, RInt(10000))
       IN  /\ 2 * range' * Den(q) <= 2 * Num(q) + Den(q)
           /\ 2 * Num(q) + Den(q) < 2 * (range' + 1) * Den(q)
           /\ state' = state
           /\ NoneLeft("click")
           /\ clickTweenRef' = clickTweenRef]_vars

\* a frame of an inertia tween left p at a position that is not a multiple
\* of 1/10000, so that the range holds a rounded value
C14_Witness ==
  /\ last.ticked /\ last.ev \in {"up", "cancel"}
  /\ Animated = "inertia" /\ FramesDone > 0
  /\ RInt(range) # RMul(proxy.p, RInt(10000))

\* the step is an event, not a ticker frame, that cancels or replaces the
\* tween being animated
Cancels == ~last'.ticked /\ tweens # <<>> /\ tweens' # tweens

(***************************************************************************)
(* C15: under weak fairness of the ticker frame, a tween that no press,    *)
(* drag classification, blur or superseding tween cancels completes.       *)
(* A frame either advances the tween animated or completes it, and then p  *)
(* is the tween's target, the ref of its kind is null and nothing is       *)
(* animated; the only events that end a tween are a primary press, a drag  *)
(* classification, a blur and the start of another tween; and unless such *)
(* events keep arriving for ever, again and again nothing is animated      *)
(* (every tween started has completed).                                    *)
(***************************************************************************)
C15_TweensComplete ==
  /\ [][last'.ticked /\ tweens # <<>> =>
          IF tweens' = <<>>
          THEN /\ proxy'.p = tweens[1].target
               /\ tweens[1].kind = "click" => clickTweenRef' = Null
               /\ tweens[1].kind = "inertia" => inertiaTweenRef' = Null
          ELSE tweens' = <<[tweens[1] EXCEPT !.k = @ + 1]>>]_vars
  /\ [][Cancels =>
          \/ Step("down")
          \/ Step("blur")
          \/ ~state.moved /\ state'.moved
          \/ tweens' # <<>> /\ tweens'[1].k = 0]_vars
  /\ ([]<><<Cancels>>_vars \/ []<>(tweens = <<>>))

\* the inertia tween of a released drag has completed: p is its target,
\* 1.0 here, and the inertia ref is null
C15_Witness ==
  /\ last.ev = "up" /\ last.was = "drag" /\ last.ticked
  /\ RLt(InertiaThreshold, RAbs(state.v))
  /\ tweens = <<>> /\ inertiaTweenRef = Null
  /\ proxy.p = One

\* the request named no provider and no model, and no IMAGE_PROVIDER is
\* configured; the route called the provider's generation
GeneratedFromEnvModel ==
  /\ route.response.status = 200
  /\ route.config.IMAGE_PROVIDER = Undefined
  /\ route.form.imageProvider = Undefined
  /\ route.form.imageModel = Undefined

(***************************************************************************)
(* C16: when neither IMAGE_PROVIDER nor the request names a provider, the  *)
(* provider of the generation is google if IMAGE_MODEL (trimmed, in lower  *)
(* case) starts with "google/" or "gemini-" and openai otherwise, and      *)
(* an unset IMAGE_MODEL stands for gpt-image-1.5.  normalizeModelSelection *)
(* replaces every model other than the two it knows by                     *)
(* openai/gpt-image-1.5 before the provider is inferred, so this does not  *)
(* hold.                                                                   *)
(***************************************************************************)
C16_ProviderFromImageModel ==
  GeneratedFromEnvModel =>
    LET id == IF route.config.IMAGE_MODEL = Undefined THEN <<"gpt-image-1.5">>
              ELSE toLowerCase(trim(route.config.IMAGE_MODEL))
    IN  route.response.provider =
          IF id[1] \in {"google/", "gemini-"} THEN "google" ELSE "openai"

\* IMAGE_MODEL is gemini-2.5-flash-image, no provider is named anywhere, and
\* the generation was made by openai with gpt-image-1.5
C16_Witness ==
  /\ GeneratedFromEnvModel
  /\ route.config.IMAGE_MODEL = <<"gemini-", "2.5-flash-image">>
  /\ route.response.provider = "openai"
  /\ route.response.model = <<"gpt-image-1.5">>

(***************************************************************************)
(* C17: a primary press leaves the interaction pressed and not moved, with *)
(* the x of the press as origin, no samples and velocity 0, and does not   *)
(* move p (nor the control); a press with another button changes nothing:  *)
(* no step that changes anything is such a press.                          *)
(***************************************************************************)
C17_PressFrame ==
  [][/\ Step("down") =>
          /\ state'.down /\ ~state'.moved
          /\ state'.startX \in env.pressXs
          /\ state'.samples = 0 /\ state'.v = Zero
          /\ proxy' = proxy /\ range' = range
     /\ ~Step("downIgnored")]_vars

\* a second press arrived while the inertia tween of the first interaction
\* was animated (so the velocity estimate was above the threshold): the
\* origin is the x of the press, the velocity 0
C17_Witness ==
  /\ last.ev = "down" /\ last.tw = "inertia" /\ presses = 2
  /\ state.down /\ state.startX = 2 /\ state.v = Zero

\* a pressed interaction not yet classified becomes a drag exactly by a move
\* further than 3 px from the origin or by its second value change, and the
\* step of classification leaves both refs null and nothing animated
ClassifiedExactlyWhen ==
  /\ [](state.down /\ ~state.moved =>
          \A x \in env.moveXs :
            onPointerMove(Heap, [clientX |-> x]).state.moved
              <=> (x - state.startX > 3 \/ state.startX - x > 3))
  /\ [][/\ Step("input") /\ state.down /\ ~state.moved =>
             (state'.moved <=> state.samples >= 1)
        /\ ~state.moved /\ state'.moved =>
             /\ state.down /\ state'.down
             /\ Step("move") \/ Step("input")
             /\ clickTweenRef' = Null /\ inertiaTweenRef' = Null
             /\ tweens' = <<>>]_vars

(***************************************************************************)
(* C18, as stated: ClassifiedExactlyWhen, and an interaction classified as *)
(* a drag stays one until a release, a pointercancel or a blur.            *)
(***************************************************************************)
C18_DragUntilReleaseCancelBlur ==
  /\ ClassifiedExactlyWhen
  /\ [][state.moved /\ ~state'.moved =>
          Step("up") \/ Step("cancel") \/ Step("blur")]_vars

\* C18, amended: ClassifiedExactlyWhen, and an interaction classified as a
\* drag stays one until a release, a pointercancel, a blur or another
\* primary press (which starts a new interaction, not yet classified).
C18_DragUntilReleaseCancelBlurPress ==
  /\ ClassifiedExactlyWhen
  /\ [][state.moved /\ ~state'.moved =>
          Step("up") \/ Step("cancel") \/ Step("blur") \/ Step("down")]_vars

\* the second value change of a press arrived in mid-flight of the settle
\* tween of the first, and made the interaction a drag
C18_Witness ==
  /\ last.ev = "input" /\ last.was = "tap" /\ last.tw = "click" /\ last.k > 0
  /\ ~last.ticked
  /\ state.down /\ state.moved /\ state.samples = 2
  /\ tweens = <<>> /\ clickTweenRef = Null /\ inertiaTweenRef = Null

(***************************************************************************)
(* C19: a value change that leaves the interaction a classified drag (this *)
(* sample counted) writes clamp01 of the value to p in the same step and   *)
(* leaves nothing animated; any other value change (no press, or a press   *)
(* still a tap candidate) does not write p and leaves exactly one tween    *)
(* animated, a fresh settle tween whose target is clamp01 of the value.    *)
(***************************************************************************)
C19_InputDispatch ==
  [][Step("input") =>
       IF state'.down /\ state'.moved
       THEN /\ proxy'.p = Reported'
            /\ tweens' = <<>>
            /\ clickTweenRef' = Null
       ELSE /\ proxy' = proxy
            /\ Len(tweens') = 1
            /\ tweens'[1].kind = "click" /\ tweens'[1].k = 0
            /\ tweens'[1].target = Reported'
            /\ clickTweenRef' = TweenObj]_vars

\* a value beyond the range arrived during a classified drag and was
\* written as 1.0 at once
C19_Witness ==
  /\ last.ev = "input" /\ last.was = "drag" /\ ~last.ticked
  /\ state.down /\ state.moved
  /\ range = 12000 /\ proxy.p = One
  /\ tweens = <<>>

(***************************************************************************)
(* C20: a value change during a press sets the velocity estimate to        *)
(* v * 0.65 + (dp / dt) * 0.35, with dp the position the control reports   *)
(* minus that of the previous sample and dt the time since the previous    *)
(* sample, at least 1 ms, and makes this sample the previous one; for the  *)
(* first sample the previous one is the position of the control and the    *)
(* time at the press.  A value change with no press in progress, a move, a *)
(* release and a pointercancel leave the estimate as it is.                *)
(***************************************************************************)
C20_VelocityEstimate ==
  [][/\ Step("input") /\ state.down =>
          LET elapsed == state'.lastT - state.lastT
              dt == IF elapsed < 1 THEN 1 ELSE elapsed
              dp == RSub(Reported', state.lastP)
          IN  /\ state'.v = RAdd(RMul(state.v, Rat(65, 100)),
                                 RMul(RDiv(dp, RInt(dt)), Rat(35, 100)))
              /\ state'.lastP = Reported'
              /\ state'.samples = state.samples + 1
     /\ Step("down") => state'.lastP = Reported /\ state'.lastT = 0
     /\ \/ Step("input") /\ ~state.down
        \/ Step("move") \/ Step("up") \/ Step("cancel")
        => state'.v = state.v]_vars

\* the second sample of a press, 175 ms after the press, with the estimate
\* of the first sample smoothed in
C20_Witness ==
  /\ last.ev = "input" /\ ~last.ticked
  /\ state.down /\ state.samples = 2 /\ state.lastT = 175
  /\ state.v # Zero
  /\ state.v # RMul(RDiv(RSub(Reported, Rat(1, 2)), RInt(175)), Rat(35, 100))

\* kill is killClickTween or killInertiaTween, ref the field of its ref and
\* kind the kind of its tween: on the heap h, with the ref null it changes
\* nothing; twice is as once; after it the ref is null, no tween of the kind
\* is animated, and if nothing else is animated a frame leaves p as it is
KillIsSafe(h, kind) ==
  LET kill(g) == IF kind = "click" THEN killClickTween(g)
                 ELSE killInertiaTween(g)
      ref(g) == IF kind = "click" THEN g.clickTweenRef ELSE g.inertiaTweenRef
      h1 == kill(h)
  IN  /\ ref(h) = Null => h1 = h
      /\ kill(h1) = h1
      /\ ref(h1) = Null
      /\ \A i \in 1..Len(h1.tweens) : h1.tweens[i].kind # kind
      /\ h1.proxy = h.proxy
      /\ (\A i \in 1..Len(h.tweens) : h.tweens[i].kind = kind)
           => gsapTick(h1).proxy = h.proxy

(***************************************************************************)
(* C21: in every reachable state, killClickTween and killInertiaTween      *)
(* change nothing when the ref is null, have the same effect applied twice *)
(* as once, leave the ref null, and leave no tween of their kind animated, *)
(* so that the killed tween writes p no more.                              *)
(***************************************************************************)
C21_KillIdempotent == KillIsSafe(Heap, "click") /\ KillIsSafe(Heap, "inertia")

\* an inertia tween in mid-flight, whose next frame would move p and whose
\* kill leaves nothing animated
C21_Witness ==
  /\ Animated = "inertia" /\ FramesDone > 0 /\ inertiaTweenRef # Null
  /\ gsapTick(Heap).proxy # proxy
  /\ killInertiaTween(Heap).tweens = <<>>
  /\ clickTweenRef = Null

(***************************************************************************)
(* C22: with no press in progress, a move (to any x) and a release or      *)
(* pointercancel leave the whole heap as it is: p, the velocity estimate,  *)
(* both refs and the tweens animated are unchanged, moved stays false and  *)
(* no inertia tween is started.  Accordingly every move, release or        *)
(* pointercancel step that changes something starts from a pressed state.  *)
(***************************************************************************)
C22_NoPressNoEffect ==
  /\ [](~state.down =>
          /\ \A x \in env.moveXs : onPointerMove(Heap, [clientX |-> x]) = Heap
          /\ onPointerUp(Heap) = Heap)
  /\ [][Step("move") \/ Step("up") \/ Step("cancel") => state.down]_vars

\* no press in progress (the drag was released), its inertia tween in
\* mid-flight and the velocity estimate still above the threshold: a second
\* release here starts nothing
C22_Witness ==
  /\ ~state.down /\ last.ev = "up" /\ last.ticked
  /\ Animated = "inertia" /\ FramesDone > 0
  /\ RLt(InertiaThreshold, RAbs(state.v))
  /\ onPointerUp(Heap) = Heap

\* what is on screen is the position p drawn in a container of width w > 0
\* with a handle of width handleW
Drawn(p, w, handleW) ==
  LET pp == RMax(Zero, RMin(One, p))
  IN  /\ visual.rendered
      /\ visual.clipRight = RMax(Zero, RSub(RInt(w), RMul(pp, RInt(w))))
      /\ visual.handleX = RSub(RMul(pp, RInt(w)), Rat(handleW, 2))

(***************************************************************************)
(* C23: a measurement changes sizeRef and what is drawn, nothing else: p,  *)
(* the interaction state (velocity estimate included), both refs, the      *)
(* control and the tweens animated (their targets and frames done) are as  *)
(* before, and with a width above 0 what is drawn afterwards is the        *)
(* current p at the new sizes.                                             *)
(***************************************************************************)
C23_MeasureFrame ==
  [][Step("measure") =>
       /\ proxy' = proxy /\ state' = state /\ range' = range
       /\ clickTweenRef' = clickTweenRef /\ inertiaTweenRef' = inertiaTweenRef
       /\ tweens' = tweens
       /\ \E w \in env.widths, handleW \in {DefaultHandleW, 40} :
            /\ size' = [w |-> w, handleW |-> handleW]
            /\ w > 0 => Drawn(proxy.p, w, handleW)']_vars

\* the container went from 600 to 1000 px, or the handle from 44 to 40 px,
\* while a tween was in mid-flight
C23_Witness ==
  /\ last.ev = "measure" /\ ~last.ticked
  /\ last.tw # "none" /\ last.k > 0
  /\ tweens # <<>>
  /\ size.w = 1000 /\ size.handleW = 40
  /\ Drawn(proxy.p, 1000, 40)

\* positions render is tried with, some of them outside [0, 1]
RenderSamples == {Rat(0 - 1, 2), Zero, Rat(3, 10), One, Rat(3, 2)}

\* render(p) on the heap h with a width above 0: the inset is
\* max(0, w - clamp01(p) w), within [0, w]; the handle is at
\* clamp01(p) w - handleW / 2; only what is drawn differs from h; the same
\* is drawn when render(p) runs again, and whatever the rest of the heap is
RenderIsPure(h, p) ==
  LET w == h.size.w
      pp == RMax(Zero, RMin(One, p))
      h1 == render(h, p)
      blank == [h EXCEPT !.proxy = [p |-> Rat(1, 2)], !.tweens = <<>>,
                         !.clickTweenRef = Null, !.inertiaTweenRef = Null,
                         !.range = DefaultValue,
                         !.visual = [rendered |-> FALSE, clipRight |-> Zero,
                                     handleX |-> Zero]]
  IN  /\ h1 = [h EXCEPT !.visual = h1.visual]
      /\ render(h1, p) = h1
      /\ w > 0 =>
           /\ h1.visual.rendered
           /\ h1.visual.clipRight = RMax(Zero, RSub(RInt(w), RMul(pp, RInt(w))))
           /\ RLe(Zero, h1.visual.clipRight)
           /\ RLe(h1.visual.clipRight, RInt(w))
           /\ h1.visual.handleX = RSub(RMul(pp, RInt(w)), Rat(h.size.handleW, 2))
           /\ render(blank, p).visual = h1.visual

(***************************************************************************)
(* C24: in every reachable state, render of the current p and of each of   *)
(* the sample positions draws inset max(0, w - clamp01(p) w), which is in  *)
(* [0, w], and the handle at clamp01(p) w - handleW / 2 when w > 0;        *)
(* changes nothing but what is drawn (p, interaction state, refs and       *)
(* tweens are as before); draws the same when repeated; and draws the same *)
(* from a heap that agrees on the sizes only.                              *)
(***************************************************************************)
C24_RenderPure ==
  \A p \in RenderSamples \cup {proxy.p} : RenderIsPure(Heap, p)

\* the container is 600 px wide, the handle 40 px, and what is on screen is
\* a position other than the initial one, with an inset strictly inside
C24_Witness ==
  /\ size.w = 600 /\ size.handleW = 40
  /\ proxy.p # Rat(1, 2)
  /\ Drawn(proxy.p, 600, 40)
  /\ RLt(Zero, visual.clipRight) /\ RLt(visual.clipRight, RInt(600))

Released(s) == ~s.down /\ ~s.moved /\ s.samples = 0

(***************************************************************************)
(* C26: in every reachable state moved implies down and a sample counter   *)
(* other than 0 implies down; and the handler of release and pointercancel *)
(* and the handler of blur leave down = false, moved = false, samples = 0  *)
(* from every reachable state.                                             *)
(***************************************************************************)
C26_InteractionConsistent ==
  /\ [](state.moved => state.down)
  /\ [](state.samples # 0 => state.down)
  /\ [](Released(onPointerUp(Heap).state) /\ Released(onBlur(Heap).state))
  /\ [][Step("up") \/ Step("cancel") \/ Step("blur") => Released(state')]_vars

\* a drag of two samples was cancelled: the flags are reset (the velocity
\* estimate is not)
C26_Witness ==
  /\ last.ev = "cancel" /\ last.was = "drag" /\ ~last.ticked
  /\ Released(state)
  /\ state.v # Zero /\ state.lastP # Rat(1, 2)

\* no press in progress and nothing animated
Rest == ~state.down /\ tweens = <<>>

\* p is the position of the control, to within half a step of the control
\* (writeRange rounds p to the control's steps of 1/10000)
Synced == RLe(RAbs(RSub(proxy.p, Reported)), Rat(1, 20000))

StartsSettle ==
  \E i \in 1..Len(tweens') :
    /\ tweens'[i].kind = "click"
    /\ tweens'[i].k = 0
    /\ \A j \in 1..Len(tweens) : tweens[j] # tweens'[i]

DurForVelocity(dur, v) ==
  /\ RLt(Rat(412, 1000), dur)
  /\ RLe(dur, Rat(6, 10))
  /\ dur = Rat(6, 10) <=> RLe(Rat(32, 22000), RAbs(v))

(***************************************************************************)
(* C29: every inertia tween animated was started with a velocity estimate  *)
(* above 0.0006 in absolute value, and its duration is above 0.412 s (so   *)
(* never the lower bound 0.22 s of the clamp) and 0.6 s exactly when the   *)
(* velocity is at least 0.32 / 220; the same holds of the duration         *)
(* computed for each multiple of 0.0001 above the threshold.               *)
(***************************************************************************)
C29_InertiaDurationRange ==
  /\ \A i \in OfKind("inertia") :
       /\ RLt(Rat(6, 10000), RAbs(state.v))
       /\ DurForVelocity(tweens[i].dur, state.v)
  /\ \A w \in VelocitySamples :
       RLt(Rat(6, 10000), RAbs(w)) => DurForVelocity(SampleDur[w], w)

\* an inertia tween with a duration strictly between the bounds: 0.434 s
\* for a velocity of -0.0007
C29_Witness ==
  /\ OfKind("inertia") # {}
  /\ state.v = Rat(0 - 7, 10000)
  /\ Inertia.dur = Rat(434, 1000)


(***************************************************************************)
(* The application component: the displayed image and the selection.       *)
(***************************************************************************)
\* a call of selectUpload or of handleFile is suspended on an await
Pending == app.loads # {} \/ app.files # {}

\* the stage shows an image
Displayed == app.stage \in {"preview", "result"}

\* the step in which getImageRecord of the call o settles
LoadSettles(o) == o \in app.loads /\ app'.loads = app.loads \ {o}

\* since the call o selected its upload, a later selection (the token has
\* moved on) or a later upload (the selection is no longer o's) took over
Superseded(o) == app.selectionRef # o.token \/ app.selectedId # o.id

\* the step leaves what is displayed as it is
DisplayUnchanged ==
  /\ app'.processed = app.processed
  /\ app'.generatedSrc = app.generatedSrc
  /\ app'.status = app.status
  /\ app'.stage = app.stage

\* C30: for every interleaving of selectUpload, selectPreset and handleFile,
\* once no call is pending and the stage is preview or result, the displayed
\* image (processed.id) is the one identified by selectedId; and a record load
\* that settles after a later selection or upload has superseded its call
\* changes none of processed, generatedSrc, status and stage.
C30_DisplayedIsSelected ==
  /\ [](~Pending /\ Displayed => app.processed = app.selectedId)
  /\ [][\A o \in app.loads :
          LoadSettles(o) /\ Superseded(o) => DisplayUnchanged]_vars

\* no call is pending and no promise was rejected, the stage shows the
\* stored upload whose record loaded last, and the selection is the file
\* uploaded while that load was pending
C30_Witness ==
  /\ ~Pending
  /\ Displayed
  /\ app.uploadError = "null"
  /\ app.selectionRef = 1
  /\ app.selectedId = createUploadId(1)
  /\ app.processed \in StoredUploads

====
